---- MODULE Spec2Model ----
(***************************************************************************)
(* SendFileTool (nanobot/agent/tools/file_send.py): the "send_file" agent  *)
(* tool.  The model covers the routing context (set_context), the callback *)
(* slot (set_send_callback) and execute: target resolution, the path       *)
(* validation loop over pathlib (expanduser, resolve, str.startswith,      *)
(* exists, is_file), the construction of the OutboundMessage, the awaited  *)
(* delivery callback and the formatting of the returned string.            *)
(*                                                                         *)
(* Strings that the code inspects character by character (paths) are       *)
(* sequences of one-character strings; a parsed path is a sequence of      *)
(* components, each a sequence of characters.                              *)
(***************************************************************************)
EXTENDS Integers, Sequences, FiniteSets, TLC

\* ------------------------------------------------------------------------
\* Bounds of the model
\* ------------------------------------------------------------------------

\* longest file_paths list a request of the sequential specification carries
MaxPaths == 2

\* ------------------------------------------------------------------------
\* Python values
\* ------------------------------------------------------------------------

\* Python's None, for the optional str arguments and the callback slot
None == "None"

\* truth value of a str-or-None operand ("" and None are falsy)
Truthy(x) == x # None /\ x # ""

\* Python's `a or b` on str-or-None operands
PyOr(a, b) == IF Truthy(a) THEN a ELSE b

\* no Path object (allowed_dir = None); a Path is kept as its string form
NoPath == << >>

\* ------------------------------------------------------------------------
\* Characters and path strings
\* ------------------------------------------------------------------------

SEP == "/"
NUL == "\\0"

RECURSIVE Concat(_)
\* "".join(parts)
Concat(ss) == IF ss = << >> THEN << >> ELSE Head(ss) \o Concat(Tail(ss))

\* str.startswith
StartsWith(s, prefix) ==
    /\ Len(prefix) <= Len(s)
    /\ SubSeq(s, 1, Len(prefix)) = prefix

RECURSIVE SplitSep(_, _, _)
\* s.split("/"): cur is the component being read, acc the ones already closed
SplitSep(s, cur, acc) ==
    IF s = << >> THEN Append(acc, cur)
    ELSE IF Head(s) = SEP THEN SplitSep(Tail(s), << >>, Append(acc, cur))
    ELSE SplitSep(Tail(s), Append(cur, Head(s)), acc)

DOT == << "." >>
DOTDOT == << ".", "." >>
TILDE == << "~" >>

\* Path(s): the components of s, empty and "." components dropped
PathParts(s) ==
    SelectSeq(SplitSep(s, << >>, << >>), LAMBDA c : c # << >> /\ c # DOT)

\* Path(s).is_absolute()
IsAbsolute(s) == s # << >> /\ Head(s) = SEP

\* str(path) of an absolute path given by its components
PathStr(parts) ==
    IF parts = << >> THEN << SEP >>
    ELSE Concat([i \in 1..Len(parts) |-> << SEP >> \o parts[i]])

\* ------------------------------------------------------------------------
\* The file system the tool runs against
\* ------------------------------------------------------------------------

c_f == << "f" >>
c_fx == << "f", "x" >>
c_a == << "a" >>
c_b == << "b" >>
c_d == << "d" >>
c_l == << "l" >>
c_s == << "s" >>
c_m == << "m" >>

\* home directory of the process (what "~" expands to) and its working directory
Home == << c_f >>
Cwd == << c_f >>

\* kind of the entry at an absolute, symlink-free location
FSKind(parts) ==
    IF parts \in { << >>, << c_f >>, << c_f, c_d >>, << c_fx >> } THEN "dir"
    ELSE IF parts \in { << c_f, c_a >>, << c_f, c_b >>, << c_s >>, << c_fx, c_s >> } THEN "file"
    ELSE IF parts = << c_f, c_l >> THEN "link"
    ELSE "none"

\* os.readlink of the one symbolic link: /f/l -> /s
LinkTarget(parts) == << c_s >>

\* ------------------------------------------------------------------------
\* pathlib
\* ------------------------------------------------------------------------

\* a raised fault: its class and str(e)
Fault(cls, text) == [cls |-> cls, text |-> text]
NoFault == Fault("", "")

\* classes derived from Exception, and those derived from BaseException only
ExceptionClasses == { "ValueError", "ConnectionError" }
BaseOnlyClasses == { "CancelledError" }

\* Path.expanduser(): a leading "~" component is replaced by the home directory;
\* the result is (absolute?, components)
ExpandUser(s) ==
    LET parts == PathParts(s)
    IN  IF ~IsAbsolute(s) /\ parts # << >> /\ Head(parts) = TILDE
        THEN [abs |-> TRUE, parts |-> Home \o Tail(parts)]
        ELSE [abs |-> IsAbsolute(s), parts |-> parts]

HasNul(c) == \E i \in 1..Len(c) : c[i] = NUL

RECURSIVE RealPath(_, _)
\* os.path.realpath, strict=False: walk the remaining components `rest` from the
\* resolved location `at`; ".." pops, a symbolic link is replaced by its target,
\* missing entries are kept, a NUL character makes lstat raise ValueError
RealPath(rest, at) ==
    IF rest = << >> THEN [ok |-> TRUE, parts |-> at, fault |-> NoFault]
    ELSE LET c == Head(rest)
             next == Append(at, c)
         IN  IF HasNul(c)
             THEN [ok |-> FALSE, parts |-> << >>,
                   fault |-> Fault("ValueError", "embedded null byte")]
             ELSE IF c = DOTDOT
             THEN RealPath(Tail(rest), IF at = << >> THEN at ELSE SubSeq(at, 1, Len(at) - 1))
             ELSE IF FSKind(next) = "link"
             THEN RealPath(LinkTarget(next) \o Tail(rest), << >>)
             ELSE RealPath(Tail(rest), next)

\* Path.resolve() of (absolute?, components): relative paths start at the cwd
Resolve(p) == RealPath(IF p.abs THEN p.parts ELSE Cwd \o p.parts, << >>)

\* Path.exists() and Path.is_file() of a resolved path
ExistsAlways(parts) == TRUE
Exists(parts) == FSKind(parts) # "none"
IsFile(parts) == FSKind(parts) = "file"

\* ------------------------------------------------------------------------
\* Values the requests and the host draw from
\* ------------------------------------------------------------------------

p_fa == << "/", "f", "/", "a" >>
p_home_a == << "~", "/", "a" >>
p_rel_b == << "b" >>
p_dotdot_s == << "/", "f", "/", ".", ".", "/", "s" >>
p_link == << "/", "f", "/", "l" >>
p_sibling == << "/", "f", "x", "/", "s" >>
p_dir == << "/", "f", "/", "d" >>
p_missing == << "/", "f", "/", "m" >>
p_missing_out == << "/", "m" >>
p_nul == << "/", "f", "/", NUL >>

\* path strings an agent passes: plain, "~"-relative, cwd-relative, with "..", through a
\* symbolic link, in a sibling directory, a directory, missing ones and one that
\* the OS refuses to look up
InputPaths ==
    { p_fa, p_home_a, p_rel_b, p_dotdot_s, p_link, p_sibling, p_dir, p_missing,
      p_missing_out, p_nul }

d_f_dotdot == << "/", "f", "/", "d", "/", ".", "." >>

\* allowed_dir given to the constructor: none, or /f written as /f/d/..
AllowedDirs == { NoPath, d_f_dotdot }

\* values of the routing context the host sets (requests override with others)
Channels == { "telegram" }
\* channels of the concurrent specification, where two sessions share the instance
ConcChannels == { "telegram", "slack" }
ChatIds == { "123" }
Captions == { "report" }
Callbacks == { "cb" }

RECURSIVE SeqsUpTo(_, _)
\* all sequences over S of length at most n
SeqsUpTo(S, n) ==
    IF n = 0 THEN { << >> }
    ELSE LET shorter == SeqsUpTo(S, n - 1)
         IN  shorter \cup { Append(q, x) : q \in { r \in shorter : Len(r) = n - 1 }, x \in S }

\* keyword arguments of one execute call
Requests ==
    [file_paths : SeqsUpTo(InputPaths, MaxPaths),
     caption : Captions,
     channel : { None, "", "discord" },
     chat_id : { None, "456" }]

\* ------------------------------------------------------------------------
\* State
\* ------------------------------------------------------------------------

\* the two invocations of execute that may be in flight on the one instance
Tasks == { "t1", "t2" }
MainTask == "t1"

VARIABLES
    send_callback,      \* self._send_callback
    default_channel,    \* self._default_channel
    default_chat_id,    \* self._default_chat_id
    allowed_dir,        \* self._allowed_dir
    pc,                 \* per invocation: "idle", "awaiting" (line 124), "returned", "raised"
    args,               \* per invocation: the arguments it was called with
    frame,              \* per invocation: its locals channel, chat_id, validated_paths, msg
    result,             \* per invocation: the string it returned
    thrown,             \* per invocation: the fault its callback raised
    escaped,            \* per invocation: the fault that left execute
    delivered,          \* per invocation: the messages it passed to the callback, in order
    examined,           \* per invocation: iterations of the validation loop entered
    entry,              \* per invocation: the instance fields and the latest
                        \* set_context arguments when it was called
    last_context        \* arguments of the latest set_context (constructor defaults before)

vars ==
    << send_callback, default_channel, default_chat_id, allowed_dir, pc, args, frame,
       result, thrown, escaped, delivered, examined, entry, last_context >>

\* OutboundMessage(channel, chat_id, content, files)
OutboundMessage(channel, chat_id, content, files) ==
    [channel |-> channel, chat_id |-> chat_id, content |-> content, files |-> files]
NoMessage == OutboundMessage(None, None, None, << >>)

\* a returned string, by its template and the values formatted into it
Str(kind, path, dir, text, count, channel, chat_id) ==
    [kind |-> kind, path |-> path, dir |-> dir, text |-> text, count |-> count,
     channel |-> channel, chat_id |-> chat_id]
Plain(kind) == Str(kind, << >>, NoPath, "", 0, "", "")
NoResult == Plain("")

NoArgs == [file_paths |-> << >>, caption |-> "", channel |-> None, chat_id |-> None]
NoFrame == [channel |-> None, chat_id |-> None, validated_paths |-> << >>, msg |-> NoMessage]
NoContext == [channel |-> "", chat_id |-> ""]
NoEntry ==
    [send_callback |-> None, default_channel |-> "", default_chat_id |-> "",
     context |-> NoContext]

\* __init__ (lines 13-23): the four fields from the constructor arguments, the
\* default channel "" or one of `channels`
Construct(channels) ==
    /\ send_callback \in { None } \cup Callbacks
    /\ default_channel \in { "" } \cup channels
    /\ default_chat_id \in { "" } \cup ChatIds
    /\ allowed_dir \in AllowedDirs
    /\ pc = [t \in Tasks |-> "idle"]
    /\ args = [t \in Tasks |-> NoArgs]
    /\ frame = [t \in Tasks |-> NoFrame]
    /\ result = [t \in Tasks |-> NoResult]
    /\ thrown = [t \in Tasks |-> NoFault]
    /\ escaped = [t \in Tasks |-> NoFault]
    /\ delivered = [t \in Tasks |-> << >>]
    /\ examined = [t \in Tasks |-> 0]
    /\ entry = [t \in Tasks |-> NoEntry]
    /\ last_context = [channel |-> default_channel, chat_id |-> default_chat_id]

Init == Construct(Channels)

\* ------------------------------------------------------------------------
\* set_context, set_send_callback
\* ------------------------------------------------------------------------

\* the fields set_context leaves in place of (old_channel, old_chat_id)
ContextMerged(old_channel, old_chat_id, channel, chat_id) ==
    [channel |-> PyOr(channel, old_channel), chat_id |-> PyOr(chat_id, old_chat_id)]
ContextAfter(old_channel, old_chat_id, channel, chat_id) ==
    [channel |-> channel, chat_id |-> chat_id]

\* set_context (lines 25-28)
set_context(channel, chat_id) ==
    LET after == ContextAfter(default_channel, default_chat_id, channel, chat_id)
    IN  /\ default_channel' = after.channel
        /\ default_chat_id' = after.chat_id
        /\ last_context' = [channel |-> channel, chat_id |-> chat_id]
        /\ UNCHANGED << send_callback, allowed_dir, pc, args, frame, result, thrown,
                        escaped, delivered, examined, entry >>

\* set_send_callback (lines 30-32)
set_send_callback(callback) ==
    /\ send_callback' = callback
    /\ UNCHANGED << default_channel, default_chat_id, allowed_dir, pc, args, frame,
                    result, thrown, escaped, delivered, examined, entry, last_context >>

\* ------------------------------------------------------------------------
\* execute: validation of one path (lines 95-114)
\* ------------------------------------------------------------------------

\* `except Exception` (lines 113, 128): the faults the handler takes
CatchesNothing(fault) == FALSE
Catches(fault) == fault.cls \in ExceptionClasses

\* the checks of one loop iteration, in the order of the code: the verdict is
\* "ok" (with the resolved components), an error string to return, or a fault
\* raised inside the try block
ExistenceFirst(path_str, allowed) ==
    LET r == Resolve(ExpandUser(path_str))
        a == Resolve([abs |-> IsAbsolute(allowed), parts |-> PathParts(allowed)])
    IN  IF ~r.ok THEN [verdict |-> "fault", parts |-> << >>, fault |-> r.fault]
        ELSE IF ~Exists(r.parts) THEN [verdict |-> "NotFound", parts |-> r.parts, fault |-> NoFault]
        ELSE IF allowed # NoPath /\ ~a.ok THEN [verdict |-> "fault", parts |-> << >>, fault |-> a.fault]
        ELSE IF allowed # NoPath /\ ~StartsWith(PathStr(r.parts), PathStr(a.parts))
        THEN [verdict |-> "Outside", parts |-> r.parts, fault |-> NoFault]
        ELSE IF ~IsFile(r.parts) THEN [verdict |-> "NotAFile", parts |-> r.parts, fault |-> NoFault]
        ELSE [verdict |-> "ok", parts |-> r.parts, fault |-> NoFault]
CheckPath(path_str, allowed) ==
    LET r == Resolve(ExpandUser(path_str))
        a == Resolve([abs |-> IsAbsolute(allowed), parts |-> PathParts(allowed)])
    IN  IF ~r.ok THEN [verdict |-> "fault", parts |-> << >>, fault |-> r.fault]
        ELSE IF allowed # NoPath /\ ~a.ok THEN [verdict |-> "fault", parts |-> << >>, fault |-> a.fault]
        ELSE IF allowed # NoPath /\ ~StartsWith(PathStr(r.parts), PathStr(a.parts))
        THEN [verdict |-> "Outside", parts |-> r.parts, fault |-> NoFault]
        ELSE IF ~Exists(r.parts) THEN [verdict |-> "NotFound", parts |-> r.parts, fault |-> NoFault]
        ELSE IF ~IsFile(r.parts) THEN [verdict |-> "NotAFile", parts |-> r.parts, fault |-> NoFault]
        ELSE [verdict |-> "ok", parts |-> r.parts, fault |-> NoFault]

\* the string a failed iteration returns (lines 102, 106, 109, 114)
PathError(check, path_str, allowed) ==
    IF check.verdict = "fault"
    THEN Str("ValidateError", path_str, NoPath, check.fault.text, 0, "", "")
    ELSE Str(check.verdict, path_str, IF check.verdict = "Outside" THEN allowed ELSE NoPath,
             "", 0, "", "")

\* outcome records of the synchronous part of execute
Returned(res, validated, n) ==
    [pc |-> "returned", result |-> res, fault |-> NoFault, validated |-> validated,
     examined |-> n]
Raised(fault, validated, n) ==
    [pc |-> "raised", result |-> NoResult, fault |-> fault, validated |-> validated,
     examined |-> n]
Validated(validated, n) ==
    [pc |-> "awaiting", result |-> NoResult, fault |-> NoFault, validated |-> validated,
     examined |-> n]

RECURSIVE ValidateSkipping(_, _, _, _)
ValidateSkipping(file_paths, i, validated, allowed) ==
    IF i > Len(file_paths) THEN Validated(validated, Len(file_paths))
    ELSE LET check == CheckPath(file_paths[i], allowed)
         IN  IF check.verdict = "ok"
             THEN ValidateSkipping(file_paths, i + 1, Append(validated, PathStr(check.parts)), allowed)
             ELSE ValidateSkipping(file_paths, i + 1, validated, allowed)

RECURSIVE ValidateReversed(_, _, _, _)
ValidateReversed(file_paths, i, validated, allowed) ==
    IF i > Len(file_paths) THEN Validated(validated, Len(file_paths))
    ELSE LET check == CheckPath(file_paths[i], allowed)
         IN  IF check.verdict = "ok"
             THEN ValidateReversed(file_paths, i + 1, << PathStr(check.parts) >> \o validated, allowed)
             ELSE IF check.verdict = "fault" /\ ~Catches(check.fault)
             THEN Raised(check.fault, validated, i)
             ELSE Returned(PathError(check, file_paths[i], allowed), validated, i)

RECURSIVE ValidatePaths(_, _, _, _)
\* the loop of lines 93-114 from its i-th iteration on, validated_paths so far
ValidatePaths(file_paths, i, validated, allowed) ==
    IF i > Len(file_paths) THEN Validated(validated, Len(file_paths))
    ELSE LET check == CheckPath(file_paths[i], allowed)
         IN  IF check.verdict = "ok"
             THEN ValidatePaths(file_paths, i + 1, Append(validated, PathStr(check.parts)), allowed)
             ELSE IF check.verdict = "fault" /\ ~Catches(check.fault)
             THEN Raised(check.fault, validated, i)
             ELSE Returned(PathError(check, file_paths[i], allowed), validated, i)

\* ------------------------------------------------------------------------
\* execute (lines 72-129)
\* ------------------------------------------------------------------------

\* the early returns of lines 83-90: the error to return, "" to go on
PreambleCallbackFirst(channel, chat_id, callback, file_paths) ==
    IF ~Truthy(callback) THEN "NotConfigured"
    ELSE IF ~Truthy(channel) \/ ~Truthy(chat_id) THEN "NoTarget"
    ELSE IF Len(file_paths) = 0 THEN "NoPaths"
    ELSE ""
PreambleBothMissing(channel, chat_id, callback, file_paths) ==
    IF ~Truthy(channel) /\ ~Truthy(chat_id) THEN "NoTarget"
    ELSE IF ~Truthy(callback) THEN "NotConfigured"
    ELSE IF Len(file_paths) = 0 THEN "NoPaths"
    ELSE ""
Preamble(channel, chat_id, callback, file_paths) ==
    IF ~Truthy(channel) \/ ~Truthy(chat_id) THEN "NoTarget"
    ELSE IF ~Truthy(callback) THEN "NotConfigured"
    ELSE IF Len(file_paths) = 0 THEN "NoPaths"
    ELSE ""

\* lines 125-127: the success string
SuccessFromDefaults(validated, channel, chat_id) ==
    Str("Success", IF Len(validated) > 1 THEN << >> ELSE validated[1], NoPath, "",
        IF Len(validated) > 1 THEN Len(validated) ELSE 0, default_channel, default_chat_id)
SuccessString(validated, channel, chat_id) ==
    Str("Success", IF Len(validated) > 1 THEN << >> ELSE validated[1], NoPath, "",
        IF Len(validated) > 1 THEN Len(validated) ELSE 0, channel, chat_id)

\* line 129: the string for a fault of the callback
SendErrorString(fault) == Str("SendError", << >>, NoPath, fault.text, 0, "", "")

\* lines 80-121: execute up to the call of the callback, on the instance fields
\* it reads; no await happens before line 124
RunToAwait(request, callback, channel, chat_id, allowed) ==
    LET early == Preamble(channel, chat_id, callback, request.file_paths)
    IN  IF early # "" THEN Returned(Plain(early), << >>, 0)
        ELSE ValidatePaths(request.file_paths, 1, << >>, allowed)

\* a call of execute by invocation t, run to its first suspension or its return
execute(t, request) ==
    /\ pc[t] = "idle"
    /\ LET channel == PyOr(request.channel, default_channel)
           chat_id == PyOr(request.chat_id, default_chat_id)
           out == RunToAwait(request, send_callback, channel, chat_id, allowed_dir)
           msg == OutboundMessage(channel, chat_id, request.caption, out.validated)
       IN  /\ pc' = [pc EXCEPT ![t] = out.pc]
           /\ args' = [args EXCEPT ![t] = request]
           /\ frame' = [frame EXCEPT ![t] =
                  [channel |-> channel, chat_id |-> chat_id,
                   validated_paths |-> out.validated,
                   msg |-> IF out.pc = "awaiting" THEN msg ELSE NoMessage]]
           /\ result' = [result EXCEPT ![t] = out.result]
           /\ escaped' = [escaped EXCEPT ![t] = out.fault]
           /\ delivered' = [delivered EXCEPT ![t] =
                  IF out.pc = "awaiting" THEN Append(@, msg) ELSE @]
           /\ examined' = [examined EXCEPT ![t] = out.examined]
           /\ entry' = [entry EXCEPT ![t] =
                  [send_callback |-> send_callback, default_channel |-> default_channel,
                   default_chat_id |-> default_chat_id, context |-> last_context]]
    /\ UNCHANGED << send_callback, default_channel, default_chat_id, allowed_dir,
                    thrown, last_context >>

\* the awaited callback returns (lines 124-127)
callback_returns(t) ==
    /\ pc[t] = "awaiting"
    /\ pc' = [pc EXCEPT ![t] = "returned"]
    /\ result' = [result EXCEPT ![t] =
           SuccessString(frame[t].validated_paths, frame[t].channel, frame[t].chat_id)]
    /\ UNCHANGED << send_callback, default_channel, default_chat_id, allowed_dir, args,
                    frame, thrown, escaped, delivered, examined, entry, last_context >>

\* the awaited callback raises (lines 124, 128-129)
callback_raises(t, fault) ==
    /\ pc[t] = "awaiting"
    /\ thrown' = [thrown EXCEPT ![t] = fault]
    /\ IF Catches(fault)
       THEN /\ pc' = [pc EXCEPT ![t] = "returned"]
            /\ result' = [result EXCEPT ![t] = SendErrorString(fault)]
            /\ UNCHANGED escaped
       ELSE /\ pc' = [pc EXCEPT ![t] = "raised"]
            /\ escaped' = [escaped EXCEPT ![t] = fault]
            /\ UNCHANGED result
    /\ UNCHANGED << send_callback, default_channel, default_chat_id, allowed_dir, args,
                    frame, delivered, examined, entry, last_context >>

\* what a delivery callback raises: a transport failure, or the cancellation of
\* the task that awaits it
CallbackFaults ==
    { Fault("ConnectionError", "timed out"), Fault("CancelledError", "") }

\* ------------------------------------------------------------------------
\* Specifications
\* ------------------------------------------------------------------------

\* the invocation of the sequential specification has not finished
Pending == pc[MainTask] \in { "idle", "awaiting" }

\* the host calls the setters before the invocation and while it is suspended
HostSetsContext ==
    /\ Pending
    /\ \E channel \in { "" } \cup Channels, chat_id \in { "" } \cup ChatIds :
           set_context(channel, chat_id)

HostSetsCallback ==
    /\ Pending
    /\ \E callback \in Callbacks : set_send_callback(callback)

\* the agent loop calls execute once, with any request
Execute ==
    /\ pc[MainTask] = "idle"
    /\ \E request \in Requests : execute(MainTask, request)

CallbackReturns == callback_returns(MainTask)

CallbackRaises == \E fault \in CallbackFaults : callback_raises(MainTask, fault)

\* one invocation, with the host free to call the setters at any time
Next ==
    \/ HostSetsContext
    \/ HostSetsCallback
    \/ Execute
    \/ CallbackReturns
    \/ CallbackRaises

Spec == Init /\ [][Next]_vars

\* requests of the concurrent specification
ConcRequests ==
    [file_paths : { << p_fa >>, << p_home_a, p_rel_b >>, << p_missing >> },
     caption : { "" },
     channel : { None, "discord" },
     chat_id : { None }]

\* some invocation of the concurrent specification has not finished
ConcPending == \E t \in Tasks : pc[t] \in { "idle", "awaiting" }

ConcHostSetsContext ==
    /\ ConcPending
    /\ \E channel \in { "" } \cup ConcChannels, chat_id \in { "" } \cup ChatIds :
           set_context(channel, chat_id)

ConcHostSetsCallback ==
    /\ ConcPending
    /\ \E callback \in Callbacks : set_send_callback(callback)

ConcExecute ==
    \E t \in Tasks :
        /\ pc[t] = "idle"
        /\ \E request \in ConcRequests : execute(t, request)

ConcCallbackReturns == \E t \in Tasks : callback_returns(t)

ConcCallbackRaises == \E t \in Tasks, fault \in CallbackFaults : callback_raises(t, fault)

\* two invocations on one instance, interleaved at their await, with the host
\* changing the routing context at any time
ConcNext ==
    \/ ConcHostSetsContext
    \/ ConcHostSetsCallback
    \/ ConcExecute
    \/ ConcCallbackReturns
    \/ ConcCallbackRaises

ConcInit == Construct(ConcChannels)

ConcSpec == ConcInit /\ [][ConcNext]_vars

\* ------------------------------------------------------------------------
\* Vocabulary of the properties
\* ------------------------------------------------------------------------

\* the invocation has been called
Called(t) == pc[t] # "idle"

\* the invocation is over: it returned a string or let a fault out
Finished(t) == pc[t] \in { "returned", "raised" }

\* canonical form of an input path string
Canonical(path_str) == Resolve(ExpandUser(path_str))

\* canonical components of the allowed directory
AllowedRoot == Resolve([abs |-> IsAbsolute(allowed_dir), parts |-> PathParts(allowed_dir)]).parts

\* parts is the directory root or a descendant of it
IsUnder(parts, root) ==
    /\ Len(root) <= Len(parts)
    /\ \A k \in 1..Len(root) : parts[k] = root[k]

\* the path resolves, exists, is a regular file and lies under the allowed
\* directory when one is configured
GoodPath(path_str) ==
    LET c == Canonical(path_str)
    IN  /\ c.ok
        /\ FSKind(c.parts) = "file"
        /\ allowed_dir # NoPath => IsUnder(c.parts, AllowedRoot)

\* the path resolves to a location where nothing exists
NonExistent(path_str) ==
    LET c == Canonical(path_str)
    IN  c.ok /\ FSKind(c.parts) = "none"

\* the channel and chat id an invocation must use: the request's value when it
\* is non-empty, otherwise the default stored when it was called
TargetChannel(t) ==
    IF args[t].channel \notin { None, "" } THEN args[t].channel
    ELSE entry[t].default_channel
TargetChatId(t) ==
    IF args[t].chat_id \notin { None, "" } THEN args[t].chat_id
    ELSE entry[t].default_chat_id

HasTarget(t) == TargetChannel(t) # "" /\ TargetChatId(t) # ""

HasCallback(t) == entry[t].send_callback # None

\* the canonical path strings of the request, in input order
CanonicalFiles(t) ==
    [k \in 1..Len(args[t].file_paths) |-> PathStr(Canonical(args[t].file_paths[k]).parts)]

ValidationErrors ==
    { "NoTarget", "NotConfigured", "NoPaths", "Outside", "NotFound", "NotAFile",
      "ValidateError" }

\* ------------------------------------------------------------------------
\* C1
\* ------------------------------------------------------------------------

C1_Case(t) ==
    /\ Called(t)
    /\ HasTarget(t)
    /\ HasCallback(t)
    /\ args[t].file_paths # << >>
    /\ \A k \in 1..Len(args[t].file_paths) : GoodPath(args[t].file_paths[k])

\* C1: a call with a resolved target, a configured callback and a non-empty
\* list of good paths hands the callback exactly one message, whose files are
\* the canonical forms of the inputs in input order (same length, duplicates
\* kept), and, when the callback does not raise, returns the success string.
C1_GoodPathsAreDelivered ==
    C1_Case(MainTask) =>
        /\ Len(delivered[MainTask]) = 1
        /\ delivered[MainTask][1].files = CanonicalFiles(MainTask)
        /\ (Finished(MainTask) /\ thrown[MainTask] = NoFault) =>
               /\ pc[MainTask] = "returned"
               /\ result[MainTask].kind = "Success"

\* a cwd-relative and a "~"-relative input sent under an allowed directory
C1_Witness ==
    /\ C1_Case(MainTask)
    /\ allowed_dir # NoPath
    /\ args[MainTask].file_paths = << p_rel_b, p_home_a >>
    /\ pc[MainTask] = "returned"
    /\ result[MainTask].kind = "Success"
    /\ delivered[MainTask][1].files[1] # delivered[MainTask][1].files[2]

\* ------------------------------------------------------------------------
\* C2
\* ------------------------------------------------------------------------

HasNonExistent(t) ==
    \E k \in 1..Len(args[t].file_paths) : NonExistent(args[t].file_paths[k])

\* C2 as stated: with a resolved target and a configured callback, a list that
\* holds a non-existent path anywhere gets the "not found" error naming such a
\* path, and nothing is delivered.
C2_AnyMissingPathIsNotFound ==
    (Called(MainTask) /\ HasTarget(MainTask) /\ HasCallback(MainTask)
        /\ HasNonExistent(MainTask)) =>
        /\ result[MainTask].kind = "NotFound"
        /\ NonExistent(result[MainTask].path)
        /\ delivered[MainTask] = << >>

\* the path passes every check the code makes (containment by string prefix)
PassesChecks(path_str) ==
    LET c == Canonical(path_str)
    IN  /\ c.ok
        /\ allowed_dir # NoPath => StartsWith(PathStr(c.parts), PathStr(AllowedRoot))
        /\ FSKind(c.parts) = "file"

\* the k-th path is non-existent, passes the containment check, and every
\* path before it passes every check
C2_FirstFailureIsMissing(t, k) ==
    /\ k \in 1..Len(args[t].file_paths)
    /\ NonExistent(args[t].file_paths[k])
    /\ allowed_dir # NoPath =>
           StartsWith(PathStr(Canonical(args[t].file_paths[k]).parts), PathStr(AllowedRoot))
    /\ \A j \in 1..(k - 1) : PassesChecks(args[t].file_paths[j])

\* C2 (amended): a list that holds a non-existent path is never delivered and
\* the call returns an error string; with a resolved target and a configured
\* callback that error is "not found", naming the non-existent path, when that
\* path is the first one to fail a check and it passes the containment check.
C2_MissingPathNeverDelivered ==
    (Called(MainTask) /\ HasNonExistent(MainTask)) =>
        /\ delivered[MainTask] = << >>
        /\ pc[MainTask] = "returned"
        /\ result[MainTask].kind \in ValidationErrors
        /\ \A k \in 1..Len(args[MainTask].file_paths) :
               (HasTarget(MainTask) /\ HasCallback(MainTask)
                   /\ C2_FirstFailureIsMissing(MainTask, k)) =>
                   /\ result[MainTask].kind = "NotFound"
                   /\ result[MainTask].path = args[MainTask].file_paths[k]

\* a missing path in second place, after a good one, under an allowed directory
C2_Witness ==
    /\ Called(MainTask)
    /\ allowed_dir # NoPath
    /\ Len(args[MainTask].file_paths) = 2
    /\ C2_FirstFailureIsMissing(MainTask, 2)
    /\ result[MainTask].kind = "NotFound"
    /\ result[MainTask].path = p_missing

\* ------------------------------------------------------------------------
\* C3
\* ------------------------------------------------------------------------

\* C3 as stated: without a callback every call returns "File sending not
\* configured", whatever the arguments and the stored context.
C3_NoCallbackAlwaysNotConfigured ==
    (Called(MainTask) /\ ~HasCallback(MainTask)) =>
        result[MainTask].kind = "NotConfigured"

\* C3 (amended): without a callback a call whose channel and chat id both
\* resolve to non-empty values returns "File sending not configured" whatever
\* its paths; when either resolves to empty it returns the missing-target
\* error instead; nothing is delivered either way.
C3_NoCallbackAfterTarget ==
    (Called(MainTask) /\ ~HasCallback(MainTask)) =>
        /\ pc[MainTask] = "returned"
        /\ delivered[MainTask] = << >>
        /\ result[MainTask] =
               IF HasTarget(MainTask) THEN Plain("NotConfigured") ELSE Plain("NoTarget")

\* no callback, a resolved target and a list of paths that would not validate
C3_Witness ==
    /\ Called(MainTask)
    /\ ~HasCallback(MainTask)
    /\ HasTarget(MainTask)
    /\ args[MainTask].file_paths = << p_missing, p_nul >>
    /\ result[MainTask] = Plain("NotConfigured")

\* ------------------------------------------------------------------------
\* C4
\* ------------------------------------------------------------------------

C4_Case(t) ==
    /\ Called(t)
    /\ \/ ~Truthy(args[t].channel) /\ ~Truthy(entry[t].default_channel)
       \/ ~Truthy(args[t].chat_id) /\ ~Truthy(entry[t].default_chat_id)

\* C4: when the channel is empty in the request and in the stored default, or
\* the chat id is, the call returns the missing-target error and delivers
\* nothing, whatever the paths and whether or not a callback is configured.
C4_MissingTarget ==
    C4_Case(MainTask) =>
        /\ pc[MainTask] = "returned"
        /\ result[MainTask] = Plain("NoTarget")
        /\ delivered[MainTask] = << >>

\* only the chat id is missing; the callback is configured and the paths good
C4_Witness ==
    /\ C4_Case(MainTask)
    /\ Truthy(TargetChannel(MainTask))
    /\ HasCallback(MainTask)
    /\ args[MainTask].file_paths = << p_fa >>
    /\ result[MainTask] = Plain("NoTarget")

\* ------------------------------------------------------------------------
\* C5
\* ------------------------------------------------------------------------

\* the target C5 prescribes: the request's value when non-empty, otherwise the
\* value of the latest set_context before the call (the constructor's before any)
C5_Channel(t) ==
    IF args[t].channel \notin { None, "" } THEN args[t].channel ELSE entry[t].context.channel
C5_ChatId(t) ==
    IF args[t].chat_id \notin { None, "" } THEN args[t].chat_id ELSE entry[t].context.chat_id

\* C5: the stored defaults are always exactly the arguments of the latest
\* set_context (no merge with earlier values); the channel and the chat id of a
\* dispatched message are, each on its own, the request's value when non-empty
\* and otherwise the stored default of the time of the call; no step of execute
\* changes the stored defaults.
C5_ContextResolution ==
    /\ [](/\ default_channel = last_context.channel
          /\ default_chat_id = last_context.chat_id
          /\ \A k \in 1..Len(delivered[MainTask]) :
                 /\ delivered[MainTask][k].channel = C5_Channel(MainTask)
                 /\ delivered[MainTask][k].chat_id = C5_ChatId(MainTask))
    /\ [][pc' # pc =>
             /\ default_channel' = default_channel
             /\ default_chat_id' = default_chat_id]_vars

\* the request overrides the channel only: the message mixes the request's
\* channel with the stored chat id, and the stored channel is still in place
C5_Witness ==
    /\ Len(delivered[MainTask]) = 1
    /\ args[MainTask].channel = "discord"
    /\ args[MainTask].chat_id = None
    /\ delivered[MainTask][1].channel = "discord"
    /\ delivered[MainTask][1].chat_id = "123"
    /\ entry[MainTask].default_channel = "telegram"
    /\ default_channel = "telegram"

\* ------------------------------------------------------------------------
\* C6
\* ------------------------------------------------------------------------

\* the k-th path is the first one not to pass, and it fails by a fault raised
\* while it is resolved
C6_FirstFailureIsFault(t, k) ==
    /\ k \in 1..Len(args[t].file_paths)
    /\ ~Canonical(args[t].file_paths[k]).ok
    /\ \A j \in 1..(k - 1) : PassesChecks(args[t].file_paths[j])

C6_ResultKinds == ValidationErrors \cup { "SendError", "Success" }

C7_WellFormed(t, msg) ==
    /\ msg.files # << >>
    /\ Len(msg.files) = Len(args[t].file_paths)
    /\ \A k \in 1..Len(msg.files) :
           /\ PassesChecks(args[t].file_paths[k])
           /\ msg.files[k] = PathStr(Canonical(args[t].file_paths[k]).parts)

\* C7: every message constructed or handed to the callback has a non-empty
\* files list, one entry per requested path, each of which passed the
\* existence, regular-file and containment checks of that call; a call that
\* returns a validation error has handed over nothing, and no call hands over
\* more than one message.
C7_OnlyValidatedMessages ==
    /\ frame[MainTask].msg # NoMessage => C7_WellFormed(MainTask, frame[MainTask].msg)
    /\ \A k \in 1..Len(delivered[MainTask]) : C7_WellFormed(MainTask, delivered[MainTask][k])
    /\ result[MainTask].kind \in ValidationErrors => delivered[MainTask] = << >>
    /\ Len(delivered[MainTask]) <= 1

\* a two-file message delivered under an allowed directory
C7_Witness ==
    /\ allowed_dir # NoPath
    /\ Len(delivered[MainTask]) = 1
    /\ Len(delivered[MainTask][1].files) = 2
    /\ pc[MainTask] = "awaiting"

\* ------------------------------------------------------------------------
\* C8
\* ------------------------------------------------------------------------

\* the k-th path resolves outside the allowed directory and every path before
\* it is good
C8_FirstFailureIsOutside(t, k) ==
    /\ k \in 1..Len(args[t].file_paths)
    /\ Canonical(args[t].file_paths[k]).ok
    /\ ~IsUnder(Canonical(args[t].file_paths[k]).parts, AllowedRoot)
    /\ \A j \in 1..(k - 1) : GoodPath(args[t].file_paths[j])

\* C8: with an allowed directory configured, no delivered message holds a
\* file whose canonical path is neither the allowed directory nor a descendant
\* of it, and a request whose first bad path resolves outside it gets the
\* containment error naming the path and the allowed root.
C8_AllowedDirContains ==
    (allowed_dir # NoPath /\ Called(MainTask)) =>
        /\ delivered[MainTask] # << >> =>
               \A k \in 1..Len(args[MainTask].file_paths) :
                   IsUnder(Canonical(args[MainTask].file_paths[k]).parts, AllowedRoot)
        /\ \A k \in 1..Len(args[MainTask].file_paths) :
               (HasTarget(MainTask) /\ HasCallback(MainTask)
                   /\ C8_FirstFailureIsOutside(MainTask, k)) =>
                   /\ result[MainTask].kind = "Outside"
                   /\ result[MainTask].path = args[MainTask].file_paths[k]
                   /\ result[MainTask].dir = allowed_dir

\* ------------------------------------------------------------------------
\* C9
\* ------------------------------------------------------------------------

\* the error C9 prescribes for one path, the checks taken in the order
\* resolution, containment (string prefix), existence, regular file
C9_Failure(path_str) ==
    LET c == Canonical(path_str)
    IN  IF ~c.ok THEN "ValidateError"
        ELSE IF allowed_dir # NoPath /\ ~StartsWith(PathStr(c.parts), PathStr(AllowedRoot))
        THEN "Outside"
        ELSE IF FSKind(c.parts) = "none" THEN "NotFound"
        ELSE IF FSKind(c.parts) # "file" THEN "NotAFile"
        ELSE "ok"

\* the k-th path is the first of the request to fail a check
C9_FirstFailure(t, k) ==
    /\ k \in 1..Len(args[t].file_paths)
    /\ C9_Failure(args[t].file_paths[k]) # "ok"
    /\ \A j \in 1..(k - 1) : C9_Failure(args[t].file_paths[j]) = "ok"

\* C9: with a resolved target, a configured callback and a non-empty list, the
\* returned error is that of the first path in input order to fail a check, by
\* the first check it fails in the order resolution, containment, existence,
\* regular file; it names that path's input string (and the allowed directory,
\* for containment), nothing is delivered, and the loop entered no later
\* iteration.
C9_FailFastInOrder ==
    \A k \in 1..Len(args[MainTask].file_paths) :
        (Called(MainTask) /\ HasTarget(MainTask) /\ HasCallback(MainTask)
            /\ C9_FirstFailure(MainTask, k)) =>
            /\ pc[MainTask] = "returned"
            /\ result[MainTask].kind = C9_Failure(args[MainTask].file_paths[k])
            /\ result[MainTask].path = args[MainTask].file_paths[k]
            /\ result[MainTask].kind = "Outside" => result[MainTask].dir = allowed_dir
            /\ examined[MainTask] = k
            /\ delivered[MainTask] = << >>

\* a good path, then a path both outside the allowed directory and missing:
\* the containment error for the second path
C9_Witness ==
    /\ Called(MainTask)
    /\ allowed_dir # NoPath
    /\ args[MainTask].file_paths = << p_fa, p_missing_out >>
    /\ NonExistent(p_missing_out)
    /\ result[MainTask].kind = "Outside"
    /\ result[MainTask].path = p_missing_out
    /\ examined[MainTask] = 2

\* ------------------------------------------------------------------------
\* C10
\* ------------------------------------------------------------------------

\* C10: under every interleaving of set_context with two invocations, each
\* invocation uses the routing defaults as they were when it was called: the
\* one message it hands to the callback carries the target resolved then,
\* whatever set_context does while the callback is suspended, and its success
\* string names the channel and chat id of that message.
C10_TargetReadOnce ==
    \A t \in Tasks :
        /\ Len(delivered[t]) <= 1
        /\ \A k \in 1..Len(delivered[t]) :
               /\ delivered[t][k] = frame[t].msg
               /\ delivered[t][k].channel = TargetChannel(t)
               /\ delivered[t][k].chat_id = TargetChatId(t)
        /\ result[t].kind = "Success" =>
               /\ Len(delivered[t]) = 1
               /\ result[t].channel = delivered[t][1].channel
               /\ result[t].chat_id = delivered[t][1].chat_id

\* one invocation succeeded towards the defaults of its call although they were
\* replaced while it was suspended; the other, called after the change, is
\* suspended with a message towards the new defaults
C10_Witness ==
    \E t \in Tasks, u \in Tasks :
        /\ t # u
        /\ args[t].channel = None
        /\ args[u].channel = None
        /\ result[t].kind = "Success"
        /\ result[t].channel = "telegram"
        /\ default_channel = "slack"
        /\ pc[u] = "awaiting"
        /\ delivered[u][1].channel = "slack"

====
